---- MODULE Spec2Model ----
(***************************************************************************)
(* A model of PredictionUtils (src/prediction_utils.py): the distance      *)
(* engine, the feature-combination generator, the nearest-neighbour        *)
(* average, the sort by distance, the error metrics and the seeded row     *)
(* shuffle.  Every action is one call of one method on inputs drawn from   *)
(* small sets; `op', `args' and `result' hold the last call, `rng' is      *)
(* numpy's process-wide random state.                                      *)
(*                                                                         *)
(* Real numbers are fixed-point: the integer v stands for v / Scale.       *)
(***************************************************************************)
EXTENDS Integers, Sequences, FiniteSets

\* ---------------------------------------------------------------- bounds
\* Fixed-point resolution: values are multiples of 1 / Scale.
Scale == 2
\* Feature values are 0, 1 step, 2 steps, ... MaxSteps steps; a step is
\* 2 + 1/Scale, so not a whole number.
MaxSteps == 14
\* Longest training-column list handed to the combination generator.
MaxFeatures == 3
\* Most rows of a frame handed to the sort, the shuffle and compare_observations.
MaxRows == 3
\* Most (actual, predicted) pairs of a frame handed to the error metrics.
MaxPairs == 2
\* Most rows of a distance-sorted frame handed to get_nearest_neighbors.
MaxKnnRows == 6
\* Largest configured neighbour count k.
MaxK == 6
\* Largest target value / distance of a row handed to the sort and the metrics.
MaxTarget == 1

\* ------------------------------------------------------------- helpers
Abs(x) == IF x < 0 THEN -x ELSE x

Min(a, b) == IF a < b THEN a ELSE b

RECURSIVE SumSeq(_)
SumSeq(s) == IF s = <<>> THEN 0 ELSE Head(s) + SumSeq(Tail(s))

SeqsUpTo(S, n) == UNION {[1..k -> S] : k \in 0..n}

Range(s) == {s[i] : i \in DOMAIN s}

Injective(s) == \A i, j \in DOMAIN s : s[i] = s[j] => i = j

Returned(v) == [status |-> "returned", value |-> v]

Raised(e) == [status |-> "raised", value |-> e]

\* ------------------------------------------------------ missing values
\* np.nan: the missing-value marker (outside the value range, which is >= 0).
NaN == -1

isnan(v) == v = NaN

\* 2**5, the distance returned for a missing value, in fixed-point units.
MISSING_DIST == (2 ^ 5) * Scale

\* The feature values the calls are tried on (0, 2.5, 5, ... 35 at Scale 2),
\* and missing.
Values == {NaN} \cup {i * (2 * Scale + 1) : i \in 0..MaxSteps}

\* The values of a training column: missing, the least and the greatest.
ColumnValues == {NaN, 0, MaxSteps * (2 * Scale + 1)}

\* ----------------------------------------------------- distance engine
\* math.sqrt of a perfect square (abs(d) ** 2 is one).
math_sqrt(sq) == CHOOSE r \in 0..sq : r * r = sq

\* int(): truncation of a non-negative fixed-point value to a whole number,
\* given back in fixed-point units.
int(x) == (x \div Scale) * Scale

calc_euclidean_dist(val1, val2) ==
    IF isnan(val1) \/ isnan(val2)
    THEN MISSING_DIST
    ELSE int(math_sqrt(Abs(val1 - val2) ^ 2))

\* scipy.spatial.distance.euclidean on two scalars: norm(u - v) = |u - v|.
distance_euclidean(u, v) == Abs(u - v)

calc_euclidean_dist_using_scipy(val1, val2) ==
    IF isnan(val1) \/ isnan(val2)
    THEN MISSING_DIST
    ELSE distance_euclidean(val1, val2)

\* obs2.apply(lambda x: ...): one distance per row of the column obs2.
compare_observations(obs1, obs2) ==
    [i \in 1..Len(obs2) |-> calc_euclidean_dist_using_scipy(obs2[i], obs1)]

\* ------------------------------------------------ combination generator
\* Column names of the car data set, in a non-alphabetical order.
AllColumns == <<"displacement", "cylinders", "weight", "acceleration", "horsepower">>

Reverse(s) == [i \in 1..Len(s) |-> s[Len(s) + 1 - i]]

\* The training-column lists tried: the first n columns, in both orders.
FeatureLists ==
    UNION {{SubSeq(AllColumns, 1, n), Reverse(SubSeq(AllColumns, 1, n))} :
             n \in 0..MaxFeatures}

PrependAll(x, tuples) == [i \in 1..Len(tuples) |-> <<x>> \o tuples[i]]

\* itertools.combinations(s, r): the r-length subsequences of s, in
\* lexicographic order of the positions they take.
RECURSIVE itertools_combinations(_, _)
itertools_combinations(s, r) ==
    IF r = 0 THEN << <<>> >>
    ELSE IF Len(s) < r THEN <<>>
    ELSE PrependAll(Head(s), itertools_combinations(Tail(s), r - 1))
             \o itertools_combinations(Tail(s), r)

\* A wrong flatten: the groups joined last to first.
RECURSIVE flatten_combo_reversed(_)
flatten_combo_reversed(combos) ==
    IF combos = <<>> THEN <<>>
    ELSE flatten_combo_reversed(Tail(combos)) \o Head(combos)

\* sum(combos, []): the groups joined first to last.
RECURSIVE flatten_combo(_)
flatten_combo(combos) ==
    IF combos = <<>> THEN <<>>
    ELSE Head(combos) \o flatten_combo(Tail(combos))

\* The while loop: one group of combinations per length i, i+1, ... loop_count.
RECURSIVE combos_above_min_len(_, _, _)
combos_above_min_len(features, i, acc) ==
    IF i >= 1 /\ i <= Len(features)
    THEN combos_above_min_len(features, i + 1,
                              Append(acc, itertools_combinations(features, i)))
    ELSE acc

\* A wrong generator: no guard, a too-large minimum cut down to the list's length.
generate_combinations_truncating(features, min_len) ==
    Returned(flatten_combo(
        combos_above_min_len(features, Min(min_len, Len(features)), <<>>)))

generate_combinations_of_features(features, min_len) ==
    LET loop_count == Len(features)
    IN  IF min_len < loop_count
        THEN Returned(flatten_combo(combos_above_min_len(features, min_len, <<>>)))
        ELSE Returned(<<>>)

\* ------------------------------------------------ means and predictions
\* A mean is the fraction num / den, or not-a-number.
Fraction(n, d) == [nan |-> FALSE, num |-> n, den |-> d]

NotANumber == [nan |-> TRUE, num |-> 0, den |-> 1]

SameNumber(a, b) ==
    /\ a.nan = b.nan
    /\ ~a.nan => a.num * b.den = b.num * a.den

\* A wrong mean: the sum over the count, which fails for no rows.
series_mean_dividing(s) ==
    IF s = <<>> THEN Raised("ZeroDivisionError")
    ELSE Returned(Fraction(SumSeq(s), Len(s)))

\* pandas' .mean(): not-a-number for no rows.
series_mean(s) ==
    IF s = <<>> THEN Returned(NotANumber)
    ELSE Returned(Fraction(SumSeq(s), Len(s)))

\* The number of rows get_nearest_neighbors averages: iloc[0:5].
NEAREST == 5

\* df.iloc[0:stop]: the first `stop' rows, fewer if the frame is shorter.
iloc(df, stop) == SubSeq(df, 1, Min(stop, Len(df)))

\* df is the target column of a frame sorted by distance.
get_nearest_neighbors(df) == series_mean(iloc(df, NEAREST))

\* --------------------------------------------------------------- sorting
Arrangements(n) == {p \in [1..n -> 1..n] : Injective(p)}

\* df.sort_values(feature), default kind "quicksort", which is not stable: any
\* ascending arrangement of the rows.  df is the distance column; an
\* arrangement lists the rows by their position in df.
sort_dataframe_by_feature(df) ==
    {p \in Arrangements(Len(df)) :
        \A i \in 1..(Len(df) - 1) : df[p[i]] <= df[p[i + 1]]}

\* -------------------------------------------------------- error metrics
\* A row is <<actual, predicted>>.
AbsoluteErrors(df) == [i \in 1..Len(df) |-> Abs(df[i][1] - df[i][2])]

SquaredErrors(df) == [i \in 1..Len(df) |-> (df[i][1] - df[i][2]) ^ 2]

calc_mean_absolute_error(df) == series_mean(AbsoluteErrors(df))

calc_mean_squared_error(df) == series_mean(SquaredErrors(df))

\* np.sqrt: not-a-number stays not-a-number; a root is kept as its radicand.
np_sqrt(x) == [nan |-> x.nan, radicand |-> x]

\* The call of calc_mean_squared_error comes first: if it raises, so does this.
calc_root_mean_squared_error(df) ==
    LET mse == calc_mean_squared_error(df)
    IN  IF mse.status = "raised" THEN mse ELSE Returned(np_sqrt(mse.value))

\* ------------------------------------------------------------ row shuffle
\* The seed of np.random.seed(1).
SEED == 1

\* numpy's generator, cut down to eight states: seeding, and one step.
np_random_seed(seed) == seed % 8

RngNext(s) == (5 * s + 3) % 8

\* A draw in 0..max from the state s.
rk_interval(max, s) == s % (max + 1)

Swap(x, i, j) == [x EXCEPT ![i] = x[j], ![j] = x[i]]

\* np.random.shuffle: for i = n-1 down to 1, swap x[i] with x[j], j drawn
\* from 0..i.  (x is indexed from 1 here, so the places are i+1 and j+1.)
RECURSIVE shuffle(_, _, _)
shuffle(x, i, s) ==
    IF i < 1 THEN [arr |-> x, rng |-> s]
    ELSE LET s1 == RngNext(s)
             j  == rk_interval(i, s1)
         IN  shuffle(Swap(x, i + 1, j + 1), i - 1, s1)

\* np.random.permutation(n): arange(n), shuffled.
np_random_permutation(n, s) == shuffle([k \in 1..n |-> k - 1], n - 1, s)

\* The place of the row labelled `key' in the frame's index, 0 if there is none.
PlaceOf(labels, key) ==
    IF key \in Range(labels) THEN CHOOSE i \in DOMAIN labels : labels[i] = key
    ELSE 0

\* df.loc[keys], the rows by label.  A key that labels no row raises
\* KeyError (pandas 1.0 on) or, if some key does label a row, gives a row of
\* missing values (before 1.0): row 0 here.
df_loc(labels, keys) ==
    LET rows == [i \in DOMAIN keys |-> PlaceOf(labels, keys[i])]
    IN  IF \A i \in DOMAIN rows : rows[i] # 0 THEN {Returned(rows)}
        ELSE IF \E i \in DOMAIN rows : rows[i] # 0
             THEN {Raised("KeyError"), Returned(rows)}
             ELSE {Raised("KeyError")}

\* A wrong shuffle: the generator is left as it was, not seeded.
randomise_dataframe_rows_unseeded(labels, s) ==
    LET drawn == np_random_permutation(Len(labels), s)
    IN  [order |-> drawn.arr, rng |-> drawn.rng,
         outcomes |-> df_loc(labels, drawn.arr)]

\* labels is the frame's index, s the generator's state at the call.
randomise_dataframe_rows(labels, s) ==
    LET seeded == np_random_seed(SEED)
        drawn  == np_random_permutation(Len(labels), seeded)
    IN  [order |-> drawn.arr, rng |-> drawn.rng,
         outcomes |-> df_loc(labels, drawn.arr)]

\* The frames' indexes tried: distinct labels, in any order.
Indexes == {l \in SeqsUpTo(0..MaxRows, MaxRows) : Injective(l)}

\* ---------------------------------------------------------------- state
\* op, args, result: the call last made, "idle" once its result is taken
\* (a shuffle's args also note the generator's state at the call, and whether
\* a frame of that length was shuffled before).
\* rng: numpy's process-wide generator state.
\* orders: every <<length, order drawn>> a shuffle has produced so far.
VARIABLES op, args, result, rng, orders

vars == <<op, args, result, rng, orders>>

Idle == op = "idle"

Init ==
    /\ op = "idle"
    /\ args = <<>>
    /\ result = Returned(<<>>)
    /\ rng \in 0..7
    /\ orders = {}

Call(name, a, r) ==
    /\ op' = name
    /\ args' = a
    /\ result' = r

CalcEuclideanDist ==
    /\ Idle
    /\ \E val1 \in Values, val2 \in Values :
           /\ Call("calc_euclidean_dist", [val1 |-> val1, val2 |-> val2],
                   Returned(calc_euclidean_dist(val1, val2)))
           /\ UNCHANGED <<rng, orders>>

CalcEuclideanDistUsingScipy ==
    /\ Idle
    /\ \E val1 \in Values, val2 \in Values :
           /\ Call("calc_euclidean_dist_using_scipy", [val1 |-> val1, val2 |-> val2],
                   Returned(calc_euclidean_dist_using_scipy(val1, val2)))
           /\ UNCHANGED <<rng, orders>>

CompareObservations ==
    /\ Idle
    /\ \E obs1 \in Values, obs2 \in SeqsUpTo(ColumnValues, MaxRows - 1) :
           /\ Call("compare_observations", [obs1 |-> obs1, obs2 |-> obs2],
                   Returned(compare_observations(obs1, obs2)))
           /\ UNCHANGED <<rng, orders>>

GenerateCombinationsOfFeatures ==
    /\ Idle
    /\ \E features \in FeatureLists, min_len \in 0..(MaxFeatures + 1) :
           /\ Call("generate_combinations_of_features",
                   [features |-> features, min_len |-> min_len],
                   generate_combinations_of_features(features, min_len))
           /\ UNCHANGED <<rng, orders>>

GetNearestNeighbors ==
    /\ Idle
    /\ \E df \in SeqsUpTo(0..1, MaxKnnRows), k \in 1..MaxK :
           /\ Call("get_nearest_neighbors", [df |-> df, k |-> k],
                   get_nearest_neighbors(df))
           /\ UNCHANGED <<rng, orders>>

SortDataframeByFeature ==
    /\ Idle
    /\ \E df \in SeqsUpTo(0..MaxTarget, MaxRows) :
           \E sorted \in sort_dataframe_by_feature(df) :
               /\ Call("sort_dataframe_by_feature", [df |-> df], Returned(sorted))
               /\ UNCHANGED <<rng, orders>>

Frames == SeqsUpTo((0..MaxTarget) \X (0..MaxTarget), MaxPairs)

CalcMeanAbsoluteError ==
    /\ Idle
    /\ \E df \in Frames :
           /\ Call("calc_mean_absolute_error", [df |-> df], calc_mean_absolute_error(df))
           /\ UNCHANGED <<rng, orders>>

CalcMeanSquaredError ==
    /\ Idle
    /\ \E df \in Frames :
           /\ Call("calc_mean_squared_error", [df |-> df], calc_mean_squared_error(df))
           /\ UNCHANGED <<rng, orders>>

CalcRootMeanSquaredError ==
    /\ Idle
    /\ \E df \in Frames :
           /\ Call("calc_root_mean_squared_error", [df |-> df],
                   calc_root_mean_squared_error(df))
           /\ UNCHANGED <<rng, orders>>

RandomiseDataframeRows ==
    /\ Idle
    /\ \E labels \in Indexes :
           LET call == randomise_dataframe_rows(labels, rng)
           IN  \E outcome \in call.outcomes :
                   /\ Call("randomise_dataframe_rows",
                           [labels |-> labels, rng |-> rng,
                            again |-> \E o \in orders : o[1] = Len(labels)],
                           outcome)
                   /\ rng' = call.rng
                   /\ orders' = orders \cup {<<Len(labels), call.order>>}

\* The caller takes the result; the next call can be made.
TakeResult ==
    /\ ~Idle
    /\ op' = "idle"
    /\ args' = <<>>
    /\ result' = Returned(<<>>)
    /\ UNCHANGED <<rng, orders>>

Next ==
    \/ CalcEuclideanDist
    \/ CalcEuclideanDistUsingScipy
    \/ CompareObservations
    \/ GenerateCombinationsOfFeatures
    \/ GetNearestNeighbors
    \/ SortDataframeByFeature
    \/ CalcMeanAbsoluteError
    \/ CalcMeanSquaredError
    \/ CalcRootMeanSquaredError
    \/ RandomiseDataframeRows
    \/ TakeResult

Spec == Init /\ [][Next]_vars

\* ---------------------------------------------------------------- claims
IsDistanceCall == op \in {"calc_euclidean_dist", "calc_euclidean_dist_using_scipy"}

\* C1: for every pair of values of which neither is missing, both distance
\* operations return exactly the absolute difference |val1 - val2|, whole or not.
C1_DistanceIsAbsoluteDifference ==
    (IsDistanceCall /\ ~isnan(args.val1) /\ ~isnan(args.val2))
        => result = Returned(Abs(args.val1 - args.val2))

\* C2: for a query value that is present, the distance of a training row whose
\* value is missing is the fixed sentinel and is strictly greater than the
\* distance of every training row whose value is present.
C2_MissingNeverNearer ==
    (op = "compare_observations" /\ ~isnan(args.obs1))
        => \A a, b \in DOMAIN args.obs2 :
               (isnan(args.obs2[a]) /\ ~isnan(args.obs2[b]))
                   => /\ result.value[a] = MISSING_DIST
                      /\ result.value[a] > result.value[b]

IsGenerateCall == op = "generate_combinations_of_features"

\* The subsets a minimum length min_len asks for.
SubsetsFrom(features, min_len) ==
    {S \in SUBSET Range(features) : Cardinality(S) >= min_len}

\* C3: for N distinct columns and every minimum length L with 1 <= L <= N
\* (L = N too), the result holds every subset of size L..N exactly once and
\* nothing else, and so is never empty.
C3_EverySubsetOnce ==
    (IsGenerateCall /\ args.min_len >= 1 /\ args.min_len <= Len(args.features))
        => /\ result.status = "returned"
           /\ result.value # <<>>
           /\ {Range(result.value[i]) : i \in DOMAIN result.value}
                  = SubsetsFrom(args.features, args.min_len)
           /\ Len(result.value) = Cardinality(SubsetsFrom(args.features, args.min_len))
           /\ \A i \in DOMAIN result.value : Injective(result.value[i])

PositionsOf(features, t) == [i \in DOMAIN t |-> PlaceOf(features, t[i])]

LexLess(a, b) ==
    \E k \in DOMAIN a : a[k] < b[k] /\ \A j \in 1..(k - 1) : a[j] = b[j]

\* C4: in every returned sequence the combinations come in non-decreasing size,
\* those of one size in lexicographic order of their columns' input positions,
\* and inside a combination the columns keep their input order.
C4_SizeThenLexicographicOrder ==
    IsGenerateCall =>
        LET res == result.value
            pos(i) == PositionsOf(args.features, res[i])
        IN  /\ \A i \in 1..(Len(res) - 1) :
                   /\ Len(res[i]) <= Len(res[i + 1])
                   /\ Len(res[i]) = Len(res[i + 1]) => LexLess(pos(i), pos(i + 1))
            /\ \A i \in DOMAIN res :
                   \A j \in 1..(Len(res[i]) - 1) : pos(i)[j] < pos(i)[j + 1]

\* C4's case: a result with combinations of two sizes, several of the smaller.
C4_TwoSizesReturned ==
    /\ IsGenerateCall
    /\ Len(result.value) >= 4
    /\ Len(result.value[1]) < Len(result.value[Len(result.value)])
    /\ Len(result.value[1]) = Len(result.value[2])

\* C5: when the minimum length exceeds the number of columns the call returns
\* the empty sequence (it does not raise), never a shorter set of combinations.
C5_TooLongMinimumReturnsEmpty ==
    (IsGenerateCall /\ args.min_len > Len(args.features))
        => result = Returned(<<>>)

\* C5's case: two columns or more, a minimum length above their number.
C5_TooLongMinimumCalled ==
    /\ IsGenerateCall
    /\ Len(args.features) >= 2
    /\ args.min_len > Len(args.features)
    /\ result.value = <<>>

\* C6: for every k >= 1 and every distance-sorted frame of n >= 1 rows the
\* prediction is the mean of the targets of exactly the first min(k, n) rows.
C6_MeanOfFirstK ==
    (op = "get_nearest_neighbors" /\ Len(args.df) >= 1)
        => LET first == SubSeq(args.df, 1, Min(args.k, Len(args.df)))
           IN  /\ result.status = "returned"
               /\ SameNumber(result.value, Fraction(SumSeq(first), Len(first)))

\* C7: the rows come back in ascending order of distance, and two rows of
\* equal distance keep the relative order they had in the input.
C7_SortIsStable ==
    op = "sort_dataframe_by_feature" =>
        LET df == args.df
            p  == result.value
        IN  \A i, j \in DOMAIN p :
                i < j => /\ df[p[i]] <= df[p[j]]
                         /\ df[p[i]] = df[p[j]] => p[i] < p[j]

IsMetricCall ==
    op \in {"calc_mean_absolute_error", "calc_mean_squared_error",
            "calc_root_mean_squared_error"}

C9_SameLengthSameOrder ==
    \A a, b \in orders : a[1] = b[1] => a[2] = b[2]

\* C9's case: a second shuffle of a length shuffled before, of two rows or
\* more, called with the generator in another state than the seed's.
C9_ShuffledAgain ==
    /\ op = "randomise_dataframe_rows"
    /\ args.again
    /\ Len(args.labels) >= 2
    /\ args.rng # np_random_seed(SEED)

\* C10: for every frame, whatever its row labels, the shuffle does not fail
\* and returns every input row exactly once.
C10_ShuffleIsPermutation ==
    op = "randomise_dataframe_rows"
        => /\ result.status = "returned"
           /\ result.value \in Arrangements(Len(args.labels))

====
